---- MODULE Spec2Model ----
(***************************************************************************)
(* Model of the alligator crate: Later<T,O>, a wrapper that polls a future *)
(* once at construction and polls it to completion, blocking on a          *)
(* MainWaker (mutex + condition variable), when its output is first        *)
(* needed.  The wrapped future is the Sleeper of examples/sleeper, the     *)
(* always-ready async fn of examples/basic.rs, or one of two futures that  *)
(* break the crate's "Future Requirements" (one that wakes before it is    *)
(* ready, one that never becomes ready).                                   *)
(*                                                                         *)
(* Two threads take steps: the thread that owns the Later (New, the        *)
(* accessors, the poll_to_completion loop) and the worker the future       *)
(* spawned.  The condition variable may also wake the owner spuriously.    *)
(* DerefMut hands out the &mut reference; what a caller writes through it  *)
(* is not part of the crate and is not modelled.                           *)
(***************************************************************************)
EXTENDS Integers, Sequences, FiniteSets, TLC

\* ---- bounds ----
MaxSpurious   == 2      \* spurious condvar wakeups per run
MaxCalls      == 3      \* accessor calls per Later
MaxEarlyWakes == 1      \* wakes an EarlyWaker issues before it is ready
MaxPolls      == MaxSpurious + MaxEarlyWakes + 4   \* cap on a spinning poll loop

Values   == {1, 2}      \* outputs a future may carry
WakerIds == {1, 2}      \* identities an Arc<MainWaker> allocation may get
NoVal    == 0           \* absence of an output
NoWaker  == 0           \* Option<Waker>::None / no Poller held

OpKinds  == {"NotAsync", "Sleeper", "EarlyWaker", "Never"}
Accessors == {"deref", "deref_mut", "get", "display", "into_inner"}

VARIABLES
    \* the wrapped future
    opKind,        \* which future the Later wraps
    msg,           \* the output it will carry
    slWaker,       \* Sleeper.waker.0 : the stored Waker (NoWaker = None)
    slFlag,        \* Sleeper.waker.1 : the ready flag
    slMutex,       \* holder of the Sleeper mutex: "free" or "worker"
    pcWorker,      \* "none","sleep","locked","wake","notify","unlock","done"
    earlyLeft,     \* wakes the worker still issues before setting the flag
    \* MainWaker
    locker,        \* MainWaker.locker of each instance created: TRUE = still waiting
    \* Later / FuturePair / Poller
    laterState,    \* "unborn", "alive", "consumed"
    cell,          \* Later.fut_pair
    poller,        \* the Poller moved out of the cell (its waker), or NoWaker
    acc,           \* the accessor in progress, or "none"
    pcMain,        \* "idle","poll","wait","suspended","woken"
    panicked,      \* a "Report a bug" panic was hit
    \* history
    polls, p2cPolls, pollsAfterReady, readyVals, pollWakers, firstResult,
    releaseCalls, spuriousWakes, suspends, waitCalls, waitReturns,
    calls, p2cRuns, rets, spawns

opVars    == <<opKind, msg, slWaker, slFlag, slMutex, pcWorker, earlyLeft>>
laterVars == <<laterState, cell, poller, acc, pcMain, panicked>>
pollHist  == <<polls, pollsAfterReady, readyVals, pollWakers, firstResult, spawns>>
waitHist  == <<releaseCalls, spuriousWakes, suspends, waitCalls, waitReturns>>
callHist  == <<calls, p2cRuns, p2cPolls, rets>>
vars == <<opVars, locker, laterVars, pollHist, waitHist, callHist>>

\* ---- Poll<O> ----
Ready(v) == [ready |-> TRUE, val |-> v]
Pending  == [ready |-> FALSE, val |-> NoVal]

\* ---- FuturePair<T,O> ----
FutPair(w) == [tag |-> "Fut", val |-> NoVal, waker |-> w]
ValPair(v) == [tag |-> "Val", val |-> v, waker |-> NoWaker]
NonePair   == [tag |-> "None", val |-> NoVal, waker |-> NoWaker]

\* ---- the wrapped future ----
\* async fn not_actually_async: every poll is Ready(message)
not_actually_async(m) == Ready(m)

\* Sleeper::poll: Pending while no waker is stored or the flag is unset,
\* Ready(msg) once the worker has set the flag
Sleeper_poll(w, flag, m) ==
    IF w = NoWaker THEN Pending
    ELSE IF ~flag THEN Pending
    ELSE Ready(m)

\* the result of Future::poll on the wrapped future in the current state
Future_poll ==
    IF opKind = "NotAsync" THEN not_actually_async(msg)
    ELSE Sleeper_poll(slWaker, slFlag, msg)

\* poll that stores the waker and spawns a worker at every poll that finds
\* the flag unset
FirstSleeperPoll_EveryPending == opKind # "NotAsync" /\ ~slFlag

\* the first poll of a Sleeper stores the waker and spawns the worker
FirstSleeperPoll == opKind # "NotAsync" /\ slWaker = NoWaker

\* ---- MainWaker ----
\* MainWaker::new: the instance allocated as w starts with its flag TRUE
\* (still waiting); locker maps every MainWaker created so far to its flag
MainWaker_new(w) == [x \in {w} |-> TRUE]

\* local that binds the LocalWaker to a MainWaker of its own
local_Fresh(w) == CHOOSE x \in WakerIds : x # w

\* MainWaker::local: the LocalWaker handed to poll is bound to this instance
local(w) == w

\* wait that suspends whatever the flag says
wait_IgnoreFlag(flag) == "suspended"

\* wait that never suspends
wait_NoSuspend(flag) == "poll"

\* MainWaker::wait, after locking: suspend on the condvar only if the flag
\* is set; there is no loop around the condvar wait
wait(flag) == IF flag THEN "suspended" ELSE "poll"

\* release that flips the flag instead of clearing it
release_Toggle(lk, w) == [x \in DOMAIN lk |-> IF x = w THEN ~lk[x] ELSE lk[x]]

\* release that notifies without clearing the flag
release_NoFlag(lk, w) == lk

\* MainWaker::release, first statement: clear the flag under the lock
release(lk, w) == [x \in DOMAIN lk |-> IF x = w THEN FALSE ELSE lk[x]]

\* ---- Poller ----
\* poll_once that keeps the Poller whatever the poll answered
poll_once_KeepFut(res, w) == FutPair(w)

\* Poller::poll_once: Ready(val) => Val(val), Pending => Fut(self)
poll_once(res, w) == IF res.ready THEN ValPair(res.val) ELSE FutPair(w)

\* poll_to_completion that leaves the loop after any poll
poll_to_completion_NoLoop(res) == "break"

\* Poller::poll_to_completion, one turn of the loop: break on Ready,
\* wait on Pending
poll_to_completion(res) == IF res.ready THEN "break" ELSE "wait"

\* ---- FuturePair ----
\* Clone::clone of the output
clone(v) == v

\* get_ref_from_cell that puts the Poller back instead of the value
poll_into_val_KeepFut(v, p) == FutPair(p)

\* get_ref_from_cell: cell.set(cell.take().poll_into_val())
poll_into_val(v, p) == ValPair(v)

\* clone_in_cell that never sets the cell again after cell.take()
clone_in_cell_NoSet(v) == NonePair

\* clone_in_cell that stores a default output instead of the clone
clone_in_cell_Default(v) == ValPair(NoVal)

\* clone_in_cell: cell.set(FuturePair::Val(val.clone()))
clone_in_cell(v) == ValPair(clone(v))

\* into that yields a default output instead of the value held
into_Default(pair) == NoVal

\* FuturePair::into on a Val: FuturePair::Val(v) => v
into(pair) == pair.val

Init ==
    /\ opKind \in OpKinds
    /\ msg \in Values
    /\ slWaker = NoWaker
    /\ slFlag = FALSE
    /\ slMutex = "free"
    /\ pcWorker = "none"
    /\ earlyLeft \in (IF opKind = "EarlyWaker" THEN 1..MaxEarlyWakes ELSE {0})
    /\ locker = [w \in {} |-> TRUE]
    /\ laterState = "unborn"
    /\ cell = NonePair
    /\ poller = NoWaker
    /\ acc = "none"
    /\ pcMain = "idle"
    /\ panicked = FALSE
    /\ polls = 0 /\ p2cPolls = 0 /\ pollsAfterReady = 0
    /\ readyVals = {} /\ pollWakers = {} /\ firstResult = "none"
    /\ releaseCalls = 0 /\ spuriousWakes = 0 /\ suspends = 0
    /\ waitCalls = 0 /\ waitReturns = 0
    /\ calls = 0 /\ p2cRuns = 0 /\ rets = <<>> /\ spawns = 0

\* one call of Future::poll with a waker bound to MainWaker w: the effect on
\* the future and on the poll history (the result is Future_poll)
Poll(w) ==
    /\ slMutex = "free"
    /\ IF FirstSleeperPoll
          THEN /\ slWaker' = local(w)
               /\ slFlag' = FALSE
               /\ pcWorker' = "sleep"
               /\ spawns' = spawns + 1
          ELSE UNCHANGED <<slWaker, slFlag, pcWorker, spawns>>
    /\ UNCHANGED <<opKind, msg, slMutex, earlyLeft>>
    /\ polls' = polls + 1
    /\ pollsAfterReady' = IF readyVals # {} THEN pollsAfterReady + 1 ELSE pollsAfterReady
    /\ readyVals' = IF Future_poll.ready THEN readyVals \cup {Future_poll.val} ELSE readyVals
    /\ pollWakers' = pollWakers \cup {local(w)}
    /\ firstResult' = IF firstResult # "none" THEN firstResult
                      ELSE IF Future_poll.ready THEN "Ready" ELSE "Pending"

\* Later::new: Poller::new(future).poll_once()
New ==
    /\ laterState = "unborn"
    /\ \E w \in WakerIds :
          /\ Poll(w)
          /\ locker' = MainWaker_new(w)
          /\ cell' = poll_once(Future_poll, w)
    /\ laterState' = "alive"
    /\ UNCHANGED <<poller, acc, pcMain, panicked, waitHist, callHist>>

\* an accessor may start: the Later exists, its owner is not inside another
\* accessor and has not panicked
CanCall ==
    /\ laterState = "alive"
    /\ pcMain = "idle"
    /\ ~panicked
    /\ calls < MaxCalls

\* the accessor hands v to its caller
Return(a, v) == rets' = Append(rets, [op |-> a, val |-> v])

\* the owner takes the Poller out of the pair and enters poll_to_completion
EnterPoll(a) ==
    /\ poller' = cell.waker
    /\ cell' = NonePair
    /\ acc' = a
    /\ pcMain' = "poll"
    /\ p2cRuns' = p2cRuns + 1
    /\ UNCHANGED <<rets, panicked>>

\* panic!("Report a bug if you get this panic")
Panic ==
    /\ panicked' = TRUE
    /\ UNCHANGED <<cell, poller, acc, pcMain, p2cRuns, rets>>

\* FuturePair::get_ref_from_cell, up to the point where it returns the
\* reference or enters poll_to_completion
get_ref_from_cell(a) ==
    /\ CanCall
    /\ calls' = calls + 1
    /\ CASE cell.tag = "Val" ->
              /\ Return(a, cell.val)
              /\ UNCHANGED <<cell, poller, acc, pcMain, panicked, p2cRuns>>
         [] cell.tag = "Fut" -> EnterPoll(a)
         [] OTHER -> Panic
    /\ UNCHANGED <<opVars, locker, laterState, pollHist, waitHist, p2cPolls>>

\* Deref::deref
Deref == get_ref_from_cell("deref")

\* DerefMut::deref_mut
DerefMut == get_ref_from_cell("deref_mut")

\* Display::fmt: self.deref().fmt(f)
Display == get_ref_from_cell("display")

\* Later::get: FuturePair::clone_in_cell(&self.fut_pair).into()
Get ==
    /\ CanCall
    /\ calls' = calls + 1
    /\ CASE cell.tag = "Val" ->
              /\ cell' = clone_in_cell(cell.val)
              /\ Return("get", into(ValPair(cell.val)))
              /\ UNCHANGED <<poller, acc, pcMain, panicked, p2cRuns>>
         [] cell.tag = "Fut" -> EnterPoll("get")
         [] OTHER -> Panic
    /\ UNCHANGED <<opVars, locker, laterState, pollHist, waitHist, p2cPolls>>

\* Later::into_inner: self.fut_pair.into_inner().into()
IntoInner ==
    /\ CanCall
    /\ calls' = calls + 1
    /\ laterState' = "consumed"
    /\ CASE cell.tag = "Val" ->
              /\ cell' = NonePair
              /\ Return("into_inner", into(cell))
              /\ UNCHANGED <<poller, acc, pcMain, panicked, p2cRuns>>
         [] cell.tag = "Fut" -> EnterPoll("into_inner")
         [] OTHER -> Panic
    /\ UNCHANGED <<opVars, locker, pollHist, waitHist, p2cPolls>>

\* poll_to_completion broke out of its loop with v: the accessor stores the
\* value back (unless it consumed the Later) and returns
Finish(a, v) ==
    LET newCell == IF a = "get" THEN clone_in_cell(v)
                   ELSE IF a = "into_inner" THEN cell
                   ELSE poll_into_val(v, poller)
    IN  /\ cell' = newCell
        /\ Return(a, IF a = "get" THEN into(ValPair(v))
                      ELSE IF a = "into_inner" THEN v
                      ELSE newCell.val)
        /\ poller' = NoWaker
        /\ acc' = "none"
        /\ pcMain' = "idle"

\* Poller::poll_to_completion: one poll of the loop
P2CPoll ==
    /\ pcMain = "poll"
    /\ polls < MaxPolls
    /\ Poll(poller)
    /\ p2cPolls' = p2cPolls + 1
    /\ IF poll_to_completion(Future_poll) = "break"
          THEN Finish(acc, Future_poll.val)
          ELSE /\ pcMain' = "wait"
               /\ UNCHANGED <<cell, poller, acc, rets>>
    /\ UNCHANGED <<locker, laterState, panicked, waitHist, calls, p2cRuns>>

\* MainWaker::wait: lock, test the flag, suspend on the condvar (which
\* unlocks) or return
WaitEnter ==
    /\ pcMain = "wait"
    /\ pcMain' = wait(locker[poller])
    /\ waitCalls' = waitCalls + 1
    /\ suspends' = IF pcMain' = "suspended" THEN suspends + 1 ELSE suspends
    /\ waitReturns' = IF pcMain' = "suspended" THEN waitReturns ELSE waitReturns + 1
    /\ UNCHANGED <<opVars, locker, laterState, cell, poller, acc, panicked>>
    /\ UNCHANGED <<pollHist, releaseCalls, spuriousWakes, callHist>>

\* the condvar wait returns (relocks, drops the guard) and so does wait
WaitReturn ==
    /\ pcMain = "woken"
    /\ pcMain' = "poll"
    /\ waitReturns' = waitReturns + 1
    /\ UNCHANGED <<opVars, locker, laterState, cell, poller, acc, panicked>>
    /\ UNCHANGED <<pollHist, releaseCalls, spuriousWakes, suspends, waitCalls, callHist>>

\* the condvar wakes the suspended owner although nobody notified it
SpuriousWakeup ==
    /\ pcMain = "suspended"
    /\ spuriousWakes < MaxSpurious
    /\ pcMain' = "woken"
    /\ spuriousWakes' = spuriousWakes + 1
    /\ UNCHANGED <<opVars, locker, laterState, cell, poller, acc, panicked>>
    /\ UNCHANGED <<pollHist, releaseCalls, suspends, waitCalls, waitReturns, callHist>>

\* ---- the worker thread spawned by the first poll ----
\* thread::sleep is over; waker_clone.lock()
WorkerLock ==
    /\ pcWorker = "sleep"
    /\ opKind # "Never"
    /\ slMutex = "free"
    /\ slMutex' = "worker"
    /\ pcWorker' = "locked"
    /\ UNCHANGED <<opKind, msg, slWaker, slFlag, earlyLeft>>
    /\ UNCHANGED <<locker, laterVars, pollHist, waitHist, callHist>>

\* *flag = true (an EarlyWaker skips this while it still has early wakes)
WorkerSetFlag ==
    /\ pcWorker = "locked"
    /\ slFlag' = IF earlyLeft = 0 THEN TRUE ELSE slFlag
    /\ pcWorker' = "wake"
    /\ UNCHANGED <<opKind, msg, slWaker, slMutex, earlyLeft>>
    /\ UNCHANGED <<locker, laterVars, pollHist, waitHist, callHist>>

\* waker.wake() -> MainWaker::release: *self.locker.lock() = false
WorkerRelease ==
    /\ pcWorker = "wake"
    /\ locker' = release(locker, slWaker)
    /\ releaseCalls' = releaseCalls + 1
    /\ pcWorker' = "notify"
    /\ UNCHANGED <<opKind, msg, slWaker, slFlag, slMutex, earlyLeft>>
    /\ UNCHANGED <<laterVars, pollHist, spuriousWakes, suspends, waitCalls, waitReturns, callHist>>

\* MainWaker::release: self.cvar.notify_one()
WorkerNotify ==
    /\ pcWorker = "notify"
    /\ pcMain' = IF pcMain = "suspended" /\ poller = slWaker THEN "woken" ELSE pcMain
    /\ pcWorker' = "unlock"
    /\ UNCHANGED <<opKind, msg, slWaker, slFlag, slMutex, earlyLeft>>
    /\ UNCHANGED <<locker, laterState, cell, poller, acc, panicked>>
    /\ UNCHANGED <<pollHist, waitHist, callHist>>

\* the guard on the Sleeper mutex is dropped; the closure ends (an
\* EarlyWaker with early wakes left goes back to sleep)
WorkerUnlock ==
    /\ pcWorker = "unlock"
    /\ slMutex' = "free"
    /\ pcWorker' = IF earlyLeft > 0 THEN "sleep" ELSE "done"
    /\ earlyLeft' = IF earlyLeft > 0 THEN earlyLeft - 1 ELSE 0
    /\ UNCHANGED <<opKind, msg, slWaker, slFlag>>
    /\ UNCHANGED <<locker, laterVars, pollHist, waitHist, callHist>>

MainThread == P2CPoll \/ WaitEnter \/ WaitReturn
Worker == WorkerLock \/ WorkerSetFlag \/ WorkerRelease \/ WorkerNotify \/ WorkerUnlock

Next ==
    \/ New
    \/ Deref
    \/ DerefMut
    \/ Display
    \/ Get
    \/ IntoInner
    \/ P2CPoll
    \/ WaitEnter
    \/ WaitReturn
    \/ SpuriousWakeup
    \/ WorkerLock
    \/ WorkerSetFlag
    \/ WorkerRelease
    \/ WorkerNotify
    \/ WorkerUnlock

Spec == Init /\ [][Next]_vars

\* both threads are scheduled fairly; spurious wakeups and the caller's
\* decision to call an accessor are not forced
FairSpec == Spec /\ WF_vars(MainThread) /\ WF_vars(Worker)

TypeOK ==
    /\ opKind \in OpKinds /\ msg \in Values
    /\ slWaker \in WakerIds \cup {NoWaker} /\ slFlag \in BOOLEAN
    /\ slMutex \in {"free", "worker"}
    /\ pcWorker \in {"none", "sleep", "locked", "wake", "notify", "unlock", "done"}
    /\ DOMAIN locker \subseteq WakerIds
    /\ \A w \in DOMAIN locker : locker[w] \in BOOLEAN
    /\ laterState \in {"unborn", "alive", "consumed"}
    /\ cell.tag \in {"Fut", "Val", "None"}
    /\ acc \in Accessors \cup {"none"}
    /\ pcMain \in {"idle", "poll", "wait", "suspended", "woken"}

\* the owner is inside poll_to_completion
InP2C == pcMain \in {"poll", "wait", "suspended", "woken"}

\* the futures that meet the crate's Future Requirements: wake is only
\* called when the next poll answers Ready
Conforming == opKind \in {"NotAsync", "Sleeper", "Never"}

\* C1: no missed wakeup. Under fair scheduling of owner and worker, a
\* poll_to_completion on a Sleeper (Pending at the first query, ready and
\* woken once later) always comes to return the Ready value, wherever the
\* worker's flag/wake lands in the owner's poll -> Pending -> wait sequence.
NoMissedWakeup ==
    (opKind = "Sleeper" /\ InP2C)
        ~> (pcMain = "idle" /\ Len(rets) > 0 /\ rets[Len(rets)].val = msg)

\* the wake landed between the Pending result and the call to wait: wait was
\* called, never suspended, and the accessor returned
WakeBetweenPendingAndWait ==
    /\ opKind = "Sleeper"
    /\ waitCalls > 0
    /\ suspends = 0
    /\ spuriousWakes = 0
    /\ Len(rets) > 0

\* C2: a signal that precedes the wait is not lost. Once release has been
\* called, no later step suspends the owner on the condition variable.
SignalBeforeWaitNotLost == [][releaseCalls > 0 => suspends' = suspends]_vars

\* wait was called after release and returned at once
WaitAfterReleaseReturned ==
    /\ releaseCalls > 0
    /\ waitCalls = 1
    /\ waitReturns = 1
    /\ suspends = 0
    /\ pcMain = "poll"

\* C3 as stated: wait has returned only if release has been called.
WaitReturnsOnlyAfterRelease == waitReturns > 0 => releaseCalls > 0

\* C3 amended: wait tests the flag once and does not loop; as long as release
\* has not been called, every return of wait is a spurious wakeup of the
\* condition variable.
WaitReturnsAfterReleaseOrSpurious == releaseCalls = 0 => waitReturns <= spuriousWakes

\* wait returned on a spurious wakeup before any signal
WaitReturnedSpuriously ==
    /\ releaseCalls = 0
    /\ spuriousWakes > 0
    /\ waitReturns > 0

\* C4: spurious wakeups and early returns of wait never reach the caller.
\* Every value an accessor has returned is a value carried by a Poll::Ready
\* result of the wrapped future (so none returned while every poll so far
\* answered Pending).
ReturnsOnlyReadyValues == \A i \in 1..Len(rets) : rets[i].val \in readyVals

\* an accessor returned after wait had come back on a spurious wakeup
ReturnedAfterSpuriousWake ==
    /\ spuriousWakes > 0
    /\ waitReturns > 0
    /\ Len(rets) > 0

\* C5: after a non-consuming accessor (deref, deref_mut, get, Display) has
\* returned, the cell holds FuturePair::Val, never Fut or None.
AccessorsLeaveVal ==
    (laterState = "alive" /\ pcMain = "idle" /\ calls > 0 /\ ~panicked)
        => cell.tag = "Val"

\* get returned after polling a Fut cell to completion
GetResolvedFut ==
    /\ laterState = "alive"
    /\ p2cRuns = 1
    /\ Len(rets) > 0
    /\ rets[1].op = "get"
    /\ firstResult = "Pending"

\* C6: once a poll has answered Ready the future is never polled again, and
\* at most one accessor call runs poll_to_completion.
NoPollAfterReady == pollsAfterReady = 0 /\ p2cRuns <= 1

\* several accessors returned, the first of them through poll_to_completion
SeveralCallsAfterResolution ==
    /\ p2cRuns = 1
    /\ Len(rets) >= 3
    /\ readyVals # {}

\* C7: idempotence of resolution. Every accessor call returns the same
\* value, and a step that suspends the owner in MainWaker::wait belongs to
\* the first accessor call.
ResolutionIdempotent ==
    [][ /\ suspends' > suspends => calls = 1
        /\ \A i, j \in 1..Len(rets') : rets'[i].val = rets'[j].val ]_vars

\* three accessor calls returned and the first one had suspended
ThreeCallsFirstSuspended ==
    /\ Len(rets) >= 3
    /\ suspends > 0
    /\ rets[1].op # rets[2].op
    /\ rets[2].op # rets[3].op

\* C8: eager short-circuit. If the query made in Later::new answered Ready,
\* the cell is Val from construction on and no accessor ever polls again or
\* enters MainWaker::wait.
EagerShortCircuit ==
    firstResult = "Ready" =>
        /\ polls = 1
        /\ p2cRuns = 0
        /\ waitCalls = 0
        /\ suspends = 0
        /\ laterState = "alive" => cell.tag = "Val"

\* accessors returned on a Later that was ready at construction
ReadyAtConstructionRead ==
    /\ firstResult = "Ready"
    /\ Len(rets) >= 2

\* C9: Later::new polls exactly once, with a waker bound to the MainWaker
\* that Poller::new created, and does not suspend; the cell is Val(value) if
\* the poll answered Ready(value) and Fut holding that MainWaker if Pending.
NewPollsOnce ==
    (laterState = "alive" /\ calls = 0) =>
        /\ polls = 1
        /\ Cardinality(DOMAIN locker) = 1
        /\ pollWakers = DOMAIN locker
        /\ waitCalls = 0 /\ suspends = 0 /\ pcMain = "idle"
        /\ firstResult = "Ready" => cell.tag = "Val" /\ readyVals = {cell.val}
        /\ firstResult = "Pending" => cell.tag = "Fut" /\ cell.waker \in DOMAIN locker

\* a Later just built from a future that answered Pending
BuiltPending ==
    /\ laterState = "alive"
    /\ calls = 0
    /\ firstResult = "Pending"
    /\ pcWorker = "sleep"

\* C10 as stated: for every future, poll_to_completion makes at most one
\* query more than the wake events (release calls, spurious wakeups).
BlocksNotSpins == p2cPolls <= 1 + releaseCalls + spuriousWakes

\* C10 amended: the bound holds for the futures that meet the Future
\* Requirements (never Pending after wake).
BlocksNotSpinsConforming == Conforming => p2cPolls <= 1 + releaseCalls + spuriousWakes

\* a Sleeper was polled to completion through several wakeups
SleeperPolledThroughWakes ==
    /\ opKind = "Sleeper"
    /\ p2cPolls >= 3
    /\ suspends >= 2
    /\ Len(rets) > 0

\* C11: release is idempotent and the flag is monotone. A MainWaker starts
\* with its flag TRUE (waiting); a release leaves it FALSE (notified); a
\* release after the first changes neither the flag nor, by its notify, the
\* owner; no step moves a flag from FALSE back to TRUE; the owner suspends
\* only when it finds the flag TRUE.
ReleaseIdempotentFlagMonotone ==
    [][ /\ (laterState = "unborn" /\ laterState' = "alive")
            => \A w \in DOMAIN locker' : locker'[w] = TRUE
        /\ \A w \in DOMAIN locker :
              locker[w] = FALSE => (w \in DOMAIN locker' /\ locker'[w] = FALSE)
        /\ releaseCalls' > releaseCalls => locker'[slWaker] = FALSE
        /\ (releaseCalls' > releaseCalls /\ releaseCalls > 0) => locker' = locker
        /\ (pcWorker = "notify" /\ pcWorker' = "unlock" /\ releaseCalls > 1)
              => pcMain' = pcMain
        /\ suspends' > suspends => locker[poller] = TRUE ]_vars

\* release has been called a second time on the same MainWaker
ReleasedTwice ==
    /\ releaseCalls >= 2
    /\ pcWorker = "unlock"
    /\ \A w \in DOMAIN locker : locker[w] = FALSE

\* the latest return of an accessor
Last(s) == s[Len(s)]

\* the step makes accessor a return
Returns(a) == Len(rets') = Len(rets) + 1 /\ Last(rets').op = a

\* C12: get is non-destructive. When get returns v the cell holds Val(v),
\* whether it was Fut or Val before; a get that follows a get returns the
\* same value and polls nothing.
GetNonDestructive ==
    [][ Returns("get") =>
          /\ laterState' = "alive"
          /\ cell' = ValPair(Last(rets').val)
          /\ (Len(rets) > 0 /\ Last(rets).op = "get") =>
                /\ Last(rets').val = Last(rets).val
                /\ polls' = polls
                /\ p2cRuns' = p2cRuns ]_vars

\* get returned twice in a row, the first time after polling a Fut cell
GetTwice ==
    /\ Len(rets) >= 2
    /\ rets[1].op = "get"
    /\ rets[2].op = "get"
    /\ p2cRuns = 1
    /\ waitCalls > 0

\* C13: extraction equals read. Every accessor, into_inner included, returns
\* the output of the wrapped future, so into_inner returns what get/deref
\* return for the same future and what they returned before it on the same
\* Later; into_inner on a Val cell returns the cached value without polling,
\* and on a Fut cell it enters poll_to_completion.
IntoInnerEqualsRead ==
    [][ /\ \A i \in 1..Len(rets') : rets'[i].val = msg
        /\ (laterState = "alive" /\ laterState' = "consumed") =>
              /\ cell.tag = "Val" =>
                    /\ Returns("into_inner")
                    /\ Last(rets').val = cell.val
                    /\ polls' = polls /\ p2cRuns' = p2cRuns /\ pcMain' = "idle"
              /\ cell.tag = "Fut" =>
                    /\ pcMain' = "poll" /\ acc' = "into_inner"
                    /\ p2cRuns' = p2cRuns + 1
                    /\ poller' = cell.waker
                    /\ rets' = rets ]_vars

\* into_inner returned after get and deref had returned
IntoInnerAfterReads ==
    /\ Len(rets) = 3
    /\ rets[1].op = "get"
    /\ rets[2].op = "deref"
    /\ rets[3].op = "into_inner"
    /\ firstResult = "Pending"


\* the step is a poll made by poll_to_completion that answers Pending
\* although release has already been called
PendingAfterWake ==
    /\ pcMain = "poll"
    /\ polls' = polls + 1
    /\ releaseCalls > 0
    /\ ~Future_poll.ready

\* C14 as stated: a poll that answers Pending after the future has signalled
\* makes poll_to_completion panic.
EarlyWakePanics == [][PendingAfterWake => panicked']_vars

\* C14 amended: such a poll is not detected. poll_to_completion does not
\* panic; it calls wait, which finds the flag cleared and returns at once,
\* and polls again.
EarlyWakeNotFatal ==
    [][ /\ PendingAfterWake => (~panicked' /\ pcMain' = "wait" /\ rets' = rets)
        /\ (pcMain = "wait" /\ releaseCalls > 0 /\ waitCalls' = waitCalls + 1)
              => (~panicked' /\ pcMain' = "poll") ]_vars

\* a future that woke while still Pending was polled again without
\* suspending and finally returned its output
EarlyWakerPolledThrough ==
    /\ opKind = "EarlyWaker"
    /\ suspends = 0
    /\ waitCalls >= 2
    /\ ~panicked
    /\ Len(rets) > 0
    /\ rets[1].val = msg

\* C15: deadlock on a future that never becomes ready. No accessor ever
\* returns, no value is produced and nothing panics; without spurious
\* wakeups poll_to_completion polls once and the owner then stays
\* suspended: only a spurious wakeup takes it out of the suspension.
NeverReadyNeverReturns ==
    /\ [](opKind = "Never" =>
            /\ rets = <<>>
            /\ readyVals = {}
            /\ releaseCalls = 0
            /\ ~panicked
            /\ spuriousWakes = 0 => p2cPolls <= 1
            /\ waitCalls > 0 => (suspends = waitCalls /\ InP2C))
    /\ [][(opKind = "Never" /\ pcMain = "suspended" /\ pcMain' # "suspended")
              => spuriousWakes' = spuriousWakes + 1]_vars

\* the owner is suspended for good on a future that never becomes ready
SuspendedOnNever ==
    /\ opKind = "Never"
    /\ pcMain = "suspended"
    /\ spuriousWakes = 0
    /\ p2cPolls = 1
    /\ acc = "deref"
\* the Later exists before and after the step
StaysAlive == laterState = "alive" /\ laterState' = "alive"

\* C16: the resolution state is one-way. While the Later exists a Val cell
\* stays Val, a cell never becomes Fut again (it leaves Fut only through the
\* placeholder of cell.take(), and ends as Val), and a Val cell holds no
\* Poller: neither the cell nor the accessor keeps the future or its
\* MainWaker.
ResolutionOneWay ==
    [][ /\ (StaysAlive /\ cell.tag = "Val") => cell'.tag = "Val"
        /\ (StaysAlive /\ cell'.tag = "Fut") => cell' = cell
        /\ (StaysAlive /\ cell.tag = "None") => cell'.tag \in {"None", "Val"}
        /\ cell'.tag = "Val" => (cell'.waker = NoWaker /\ poller' = NoWaker) ]_vars

\* a cell that was Fut after construction is Val after two accessor calls
FutBecameVal ==
    /\ laterState = "alive"
    /\ firstResult = "Pending"
    /\ cell.tag = "Val"
    /\ poller = NoWaker
    /\ Len(rets) = 2

\* C17: the invariant-violation panics are unreachable. No panic is raised,
\* and whenever an accessor can start the cell is Fut or Val, never the
\* placeholder None; the placeholder is only held inside poll_to_completion,
\* which is entered from a Fut cell only.
PanicsUnreachable ==
    /\ ~panicked
    /\ (laterState = "alive" /\ pcMain = "idle") => cell.tag \in {"Fut", "Val"}
    /\ (laterState = "alive" /\ cell.tag = "None") => (InP2C /\ poller # NoWaker)
    /\ InP2C => (poller # NoWaker /\ acc \in Accessors)

\* every kind of accessor was called on one Later, get first
MixedAccessorsNoPanic ==
    /\ Len(rets) >= 3
    /\ rets[1].op = "get"
    /\ rets[2].op = "deref_mut"
    /\ rets[3].op = "display"
    /\ ~panicked

\* C18: every poll made on one Poller, in poll_once and in
\* poll_to_completion, carries a waker bound to the MainWaker created in
\* Poller::new, which is also the one the owner waits on; so the notify of
\* a wake issued through the waker stored at the first poll wakes an owner
\* suspended in a later accessor.
SameWakerEveryPoll ==
    /\ [](/\ pollWakers \subseteq DOMAIN locker
          /\ Cardinality(pollWakers) <= 1
          /\ slWaker # NoWaker => slWaker \in DOMAIN locker
          /\ poller # NoWaker => pollWakers = {poller}
          /\ cell.tag = "Fut" => pollWakers = {cell.waker})
    /\ [][(pcWorker = "notify" /\ pcWorker' = "unlock" /\ pcMain = "suspended")
              => pcMain' = "woken"]_vars

\* the worker's wake, made through the waker stored at the first poll, woke
\* the owner suspended in an accessor
WokenThroughStoredWaker ==
    /\ pcMain = "woken"
    /\ pcWorker = "unlock"
    /\ spuriousWakes = 0
    /\ polls = 2
    /\ slWaker = poller

\* C19: the Sleeper meets the Future Requirements. It spawns one worker
\* however often it is polled; the worker holds the Sleeper mutex from
\* setting the flag to the end of wake, and sets the flag before it calls
\* wake; wake is called at most once; a poll made after wake answers
\* Ready(msg) and a poll made while the flag is unset answers Pending.
SleeperMeetsRequirements ==
    /\ [](opKind = "Sleeper" =>
            /\ spawns = (IF polls > 0 THEN 1 ELSE 0)
            /\ releaseCalls <= 1
            /\ releaseCalls > 0 => slFlag
            /\ slFlag => pcWorker \in {"wake", "notify", "unlock", "done"}
            /\ pcWorker \in {"locked", "wake", "notify", "unlock"} <=> slMutex = "worker")
    /\ [][(opKind = "Sleeper" /\ polls' = polls + 1) =>
              /\ slMutex = "free"
              /\ releaseCalls > 0 => Future_poll = Ready(msg)
              /\ ~slFlag => Future_poll = Pending ]_vars

\* a Sleeper was polled several times, before and after its single wake
SleeperPolledBeforeAndAfterWake ==
    /\ opKind = "Sleeper"
    /\ polls >= 4
    /\ spawns = 1
    /\ releaseCalls = 1
    /\ pcWorker = "done"
    /\ Len(rets) > 0

====
